---- MODULE Spec2Model ----
(***************************************************************************)
(* A model of the block-layer crate: the chunk primitive (chunk.rs), the   *)
(* slab cursor and bounded best-fit fold (index/slicelist.rs) and the      *)
(* self-hosting freelist (freelist.rs).                                    *)
(*                                                                         *)
(* The slab is a function from cell index to cell content.  A cell is raw  *)
(* (never initialised), a chunk (initialised as Chunk<Entry>) or dropped   *)
(* (drop_in_place has run: len is 0, next_hint still holds its old value). *)
(* Cells lent to the client are never written by the client, as in the     *)
(* alloc_free test of freelist.rs.  Two references to one cell (a list     *)
(* that links a chunk to itself) are modelled as sequential reads and      *)
(* writes of the same memory.                                              *)
(***************************************************************************)
EXTENDS Integers, Sequences, FiniteSets, Bags, TLC

\* ------------------------------------------------------------------ bounds
\* number of cells of the slab (c.len() in FreeList::new) when the root is an
\* inner cell
NChunks == 6
\* number of cells of the slab when the root is any cell
NSmall == 5
\* Chunk<Entry>::capacity(), 510 in the program, scaled down
Capacity == 2
\* largest count passed to allocate
MaxCount == 2
\* largest number of records of one range the client holds at a time
MaxCopies == 2

\* Link::empty() for the slab-index discipline (usize::MAX)
Empty == -1

\* ------------------------------------------------------------- Option<T>
NoneV == [some |-> FALSE]
Some(v) == [some |-> TRUE, val |-> v]

\* ------------------------------------------------------------- Entry
Entry(s, l) == [start |-> s, len |-> l]

\* Entry::allocate
EntryAllocate(e, count) == [start |-> e.start + count, len |-> e.len - count]

\* ------------------------------------------------------------- Chunk
\* Chunk::initialize: len = 0, next_hint = empty
initialize == [kind |-> "chunk", ents |-> << >>, next_hint |-> Empty]

\* a cell that was never initialised
RawCell == [kind |-> "raw", ents |-> << >>, next_hint |-> Empty]

\* Drop for Chunk: pops every element, leaves next_hint alone
drop(c) == [kind |-> "dropped", ents |-> << >>, next_hint |-> c.next_hint]

\* Chunk::len
len(c) == Len(c.ents)

\* Variants of the operations below, each wrong in one respect; the
\* properties of the chunk are checked to tell every one of them from the
\* operation it stands for.
\* a push that overwrites the last slot of a full chunk
push_over(c, value) ==
    IF len(c) < Capacity
    THEN [chunk |-> [c EXCEPT !.ents = Append(@, value)], ret |-> NoneV]
    ELSE [chunk |-> [c EXCEPT !.ents[len(c)] = value],
          ret |-> Some(c.ents[len(c)])]

\* a pop that hands out the first element
pop_first(c) ==
    IF len(c) = 0
    THEN [chunk |-> c, ret |-> NoneV]
    ELSE [chunk |-> [c EXCEPT !.ents = SubSeq(@, 2, Len(@))],
          ret |-> Some(c.ents[1])]

\* a remove that takes the last element whatever the index
remove_last(c, index) ==
    IF index < len(c)
    THEN [chunk |-> [c EXCEPT !.ents = SubSeq(@, 1, Len(@) - 1)],
          ret |-> Some(c.ents[len(c)])]
    ELSE [chunk |-> c, ret |-> NoneV]

\* a split that loses the element at index
split_short(c, index) ==
    IF index > len(c)
    THEN [panic |-> TRUE, self |-> c, other |-> initialize]
    ELSE [panic |-> FALSE,
          self |-> [c EXCEPT !.ents = SubSeq(@, 1, index)],
          other |-> [initialize EXCEPT
                        !.ents = SubSeq(c.ents, index + 2, len(c))]]

\* a split that hands the successor of self over to other
split_relink(c, index) ==
    IF index > len(c)
    THEN [panic |-> TRUE, self |-> c, other |-> initialize]
    ELSE [panic |-> FALSE,
          self |-> [c EXCEPT !.ents = SubSeq(@, 1, index),
                             !.next_hint = Empty],
          other |-> [initialize EXCEPT
                        !.ents = SubSeq(c.ents, index + 1, len(c)),
                        !.next_hint = c.next_hint]]

\* a split that takes an index past the end for the end
split_clamped(c, index) ==
    LET i == IF index > len(c) THEN len(c) ELSE index
    IN  [panic |-> FALSE,
         self |-> [c EXCEPT !.ents = SubSeq(@, 1, i)],
         other |-> [initialize EXCEPT
                       !.ents = SubSeq(c.ents, i + 1, len(c))]]

\* Chunk::push: appends unless full, else hands the value back
push(c, value) ==
    IF len(c) < Capacity
    THEN [chunk |-> [c EXCEPT !.ents = Append(@, value)], ret |-> NoneV]
    ELSE [chunk |-> c, ret |-> Some(value)]

\* Chunk::pop
pop(c) ==
    IF len(c) = 0
    THEN [chunk |-> c, ret |-> NoneV]
    ELSE [chunk |-> [c EXCEPT !.ents = SubSeq(@, 1, Len(@) - 1)],
          ret |-> Some(c.ents[len(c)])]

\* Chunk::insert: index_in_bounds && has_space, else hands the value back
insert(c, index, element) ==
    IF index <= len(c) /\ len(c) < Capacity
    THEN [chunk |-> [c EXCEPT !.ents = SubSeq(@, 1, index) \o << element >>
                                        \o SubSeq(@, index + 1, Len(@))],
          ret |-> NoneV]
    ELSE [chunk |-> c, ret |-> Some(element)]

\* Chunk::remove
remove(c, index) ==
    IF index < len(c)
    THEN [chunk |-> [c EXCEPT !.ents = SubSeq(@, 1, index)
                                        \o SubSeq(@, index + 2, Len(@))],
          ret |-> Some(c.ents[index + 1])]
    ELSE [chunk |-> c, ret |-> NoneV]

\* Chunk::split: other is initialised first, then the slice own[index..len]
\* panics when index > len; the slots [index, len) move to other and
\* next_hint of neither chunk is written
split(c, index) ==
    IF index > len(c)
    THEN [panic |-> TRUE, self |-> c, other |-> initialize]
    ELSE [panic |-> FALSE,
          self |-> [c EXCEPT !.ents = SubSeq(@, 1, index)],
          other |-> [initialize EXCEPT
                        !.ents = SubSeq(c.ents, index + 1, len(c))]]

\* ------------------------------------------------- IterExt (slicelist.rs)
\* the fold of max_by_key_with_cutoff over keys[i..], with the running
\* maximum at index m: a strictly larger key replaces it, and the fold
\* stops as soon as the maximum reaches the cutoff
RECURSIVE CutoffFold(_, _, _, _)
CutoffFold(keys, cutoff, m, i) ==
    IF i > Len(keys) THEN m
    ELSE IF keys[i] > keys[m]
         THEN IF keys[i] >= cutoff THEN i
              ELSE CutoffFold(keys, cutoff, i, i + 1)
         ELSE CutoffFold(keys, cutoff, m, i + 1)

\* a variant that does not test the first item against the cutoff
max_by_key_unchecked_first(keys, cutoff) ==
    IF Len(keys) = 0 THEN 0
    ELSE CutoffFold(keys, cutoff, 1, 2)

\* IterExt::max_by_key_with_cutoff over a sequence of keys: the (1-based)
\* index of the item returned, 0 for None
max_by_key_with_cutoff(keys, cutoff) ==
    IF Len(keys) = 0 THEN 0
    ELSE IF keys[1] >= cutoff THEN 1
    ELSE CutoffFold(keys, cutoff, 1, 2)

Lens(ents) == [i \in 1 .. Len(ents) |-> ents[i].len]

\* ------------------------------------------------ AtomicBool (superblock)
\* a variant of compare_and_swap that always reports the expected value
compare_and_swap_blind(flag, current, new) ==
    [flag |-> new, ret |-> current]

\* AtomicBool::compare_and_swap(current, new, SeqCst), one atomic step: the
\* flag becomes new if it was current; the value it had is returned
compare_and_swap(flag, current, new) ==
    [flag |-> IF flag = current THEN new ELSE flag, ret |-> flag]

\* ------------------------------------- slab cursors (slicelist, ptrlist)
\* a variant of the advance that ends before a chunk without successor
iter_next_before_last(chunks, current) ==
    IF current = Empty \/ chunks[current].next_hint = Empty
    THEN [ret |-> NoneV, current |-> current]
    ELSE [ret |-> Some(current), current |-> chunks[current].next_hint]

\* SliceIter::next, SliceIterMut::next, Cursor::next, CursorMut::next: none
\* when the current link is empty, else the index of the chunk yielded (the
\* chunk is chunks[index]); current moves on to its next_hint
iter_next(chunks, current) ==
    IF current = Empty
    THEN [ret |-> NoneV, current |-> current]
    ELSE [ret |-> Some(current), current |-> chunks[current].next_hint]

\* -------------------------------------------- slice::binary_search_by_key
\* the halving loop of the standard library's binary_search_by (the one in
\* place when the crate was written): base is the 0-based lower index, size
\* the width still searched.  On a chunk kept sorted by start it ends on the
\* last entry that does not start after pos.
RECURSIVE BinarySearchLoop(_, _, _, _)
BinarySearchLoop(ents, pos, base, size) ==
    IF size > 1
    THEN LET half == size \div 2
             mid == base + half
         IN  BinarySearchLoop(ents, pos,
                              IF ents[mid + 1].start > pos THEN base ELSE mid,
                              size - half)
    ELSE base

\* chunk.binary_search_by_key(&pos, |e| e.start): Ok (ok = TRUE) or
\* Err(idx), the insertion position
binary_search_by_key(ents, pos) ==
    IF Len(ents) = 0 THEN [ok |-> FALSE, idx |-> 0]
    ELSE LET base == BinarySearchLoop(ents, pos, 0, Len(ents))
             s == ents[base + 1].start
         IN  IF s = pos THEN [ok |-> TRUE, idx |-> base]
             ELSE [ok |-> FALSE, idx |-> IF s < pos THEN base + 1 ELSE base]

\* ------------------------------------------------------------- FreeList
\* A freelist value threaded through one call: the slab, the root index
\* (FreeList::initial) and how the call has gone so far: "ok", "panic",
\* "hang" (a loop that never ends) or "ub" (a raw cell read as a chunk).
Fail(fl, chunks, how) == [fl EXCEPT !.chunks = chunks, !.status = how]

\* the while-let of free over SliceIterMut: free_chunk is the first chunk
\* whose last entry ends at or after pos, else the last chunk yielded; cur is
\* the iterator's link afterwards.  A link met twice is met for ever.
RECURSIVE FreeWalk(_, _, _, _, _)
FreeWalk(chunks, cur, seen, free_chunk, pos) ==
    IF cur = Empty THEN [status |-> "ok", id |-> free_chunk, cur |-> Empty]
    ELSE IF cur \notin DOMAIN chunks THEN [status |-> "panic", id |-> Empty, cur |-> cur]
    ELSE IF chunks[cur].kind = "raw" THEN [status |-> "ub", id |-> Empty, cur |-> cur]
    ELSE IF cur \in seen THEN [status |-> "hang", id |-> Empty, cur |-> cur]
    ELSE LET c == chunks[cur]
             n == len(c)
         IN  IF n > 0 /\ c.ents[n].start + c.ents[n].len >= pos
             THEN [status |-> "ok", id |-> cur, cur |-> c.next_hint]
             ELSE FreeWalk(chunks, c.next_hint, seen \cup {cur}, cur, pos)

RECURSIVE free(_, _, _)

\* free, (true, PostAdj::No): append to the previous entry
FreeExtendPre(fl, id, insert_pos, count) ==
    [fl EXCEPT !.chunks[id].ents[insert_pos].len = @ + count]

\* free, (false, PostAdj::Same): merge into the next entry of the chunk
FreeExtendSame(fl, id, insert_pos, pos, count) ==
    [fl EXCEPT !.chunks[id].ents[insert_pos + 1] =
                   Entry(pos, @.len + count)]

\* free, (false, PostAdj::Next): merge into the first entry of the next chunk
FreeExtendNext(fl, next, pos, count) ==
    [fl EXCEPT !.chunks[next].ents[1] = Entry(pos, @.len + count)]

\* free, (true, PostAdj::Same): remove the next entry, merge all into pre
FreeMergeSame(fl, id, insert_pos, count) ==
    LET r == remove(fl.chunks[id], insert_pos)
    IN  [fl EXCEPT !.chunks[id] =
            [r.chunk EXCEPT !.ents[insert_pos].len = @ + count + r.ret.val.len]]

\* free, (true, PostAdj::Next): remove the first entry of the next chunk,
\* merge all into pre; a next chunk left empty is unlinked, dropped and its
\* cell freed by a nested call
FreeMergeNext(fl, id, next, insert_pos, count) ==
    LET r == remove(fl.chunks[next], 0)
        c1 == [fl.chunks EXCEPT ![next] = r.chunk]
        rem == len(c1[next]) = 0
    IN  IF insert_pos > len(c1[id])
        THEN Fail(fl, c1, "panic")
        ELSE LET c2 == [c1 EXCEPT ![id].ents[insert_pos].len =
                                      @ + count + r.ret.val.len]
                 next_next == c2[next].next_hint
                 c3 == [c2 EXCEPT ![id].next_hint = next_next]
                 c4 == [c3 EXCEPT ![next] = drop(@)]
             IN  IF rem
                 THEN free([fl EXCEPT !.chunks = c4], next, 1)
                 ELSE [fl EXCEPT !.chunks = c2]

\* free, (false, PostAdj::No), the chunk is full: one cell is taken from the
\* end of the chunk's last entry to host a new chunk, the chunk is split at
\* insert_pos, relinked, and the entry pushed
FreeOverflow(fl, id, insert_pos, entry) ==
    LET chunk == fl.chunks[id]
        n == len(chunk)
    IN  IF n = 0 \/ chunk.ents[n].len = 0
        THEN Fail(fl, fl.chunks, "panic")
        ELSE
        LET newlen == chunk.ents[n].len - 1
            newchunk == chunk.ents[n].start + newlen
            c1 == IF newlen = 0
                  THEN [fl.chunks EXCEPT ![id] = pop(@).chunk]
                  ELSE [fl.chunks EXCEPT ![id].ents[n].len = newlen]
            next == c1[id].next_hint
        IN  IF newchunk \notin DOMAIN fl.chunks
            THEN Fail(fl, c1, "panic")
            ELSE
            LET c2 == [c1 EXCEPT ![newchunk] = initialize]
                sp == split(c2[id], insert_pos)
                c3 == [[c2 EXCEPT ![id] = sp.self] EXCEPT ![newchunk] = sp.other]
                c4 == [c3 EXCEPT ![newchunk].next_hint = next]
                c5 == [c4 EXCEPT ![id].next_hint = newchunk]
                p == push(c5[id], entry)
            IN  IF sp.panic THEN Fail(fl, c2, "panic")
                ELSE IF p.ret.some THEN Fail(fl, c5, "panic")
                ELSE [fl EXCEPT !.chunks = [c5 EXCEPT ![id] = p.chunk]]

\* free, (false, PostAdj::No): add a new entry
FreeInsert(fl, id, insert_pos, pos, count) ==
    LET succ == insert(fl.chunks[id], insert_pos, Entry(pos, count))
    IN  IF succ.ret.some
        THEN FreeOverflow(fl, id, insert_pos, Entry(pos, count))
        ELSE [fl EXCEPT !.chunks[id] = succ.chunk]

\* PostAdj of free: "No", "Same" or "Next"
PostAdj(chunks, id, next, insert_pos, expected_start) ==
    IF insert_pos = len(chunks[id])
    THEN IF next # Empty /\ len(chunks[next]) > 0
            /\ chunks[next].ents[1].start = expected_start
         THEN "Next" ELSE "No"
    ELSE IF chunks[id].ents[insert_pos + 1].start = expected_start
         THEN "Same" ELSE "No"

\* FreeList::free
free(fl, pos, count) ==
    LET w == FreeWalk(fl.chunks, fl.initial, {}, Empty, pos)
    IN  IF w.status # "ok" THEN Fail(fl, fl.chunks, w.status)
        ELSE IF w.id = Empty THEN Fail(fl, fl.chunks, "panic")
        ELSE IF w.cur # Empty /\ w.cur \notin DOMAIN fl.chunks THEN Fail(fl, fl.chunks, "panic")
        ELSE IF w.cur # Empty /\ fl.chunks[w.cur].kind = "raw"
             THEN Fail(fl, fl.chunks, "ub")
        ELSE
        LET id == w.id
            next == w.cur
            bs == binary_search_by_key(fl.chunks[id].ents, pos)
            insert_pos == bs.idx
            pre_adj == insert_pos # 0
                       /\ fl.chunks[id].ents[insert_pos].start
                          + fl.chunks[id].ents[insert_pos].len = pos
            post_adj == PostAdj(fl.chunks, id, next, insert_pos, pos + count)
        IN  IF bs.ok THEN Fail(fl, fl.chunks, "panic")
            ELSE IF pre_adj /\ post_adj = "No"
                 THEN FreeExtendPre(fl, id, insert_pos, count)
            ELSE IF ~pre_adj /\ post_adj = "Same"
                 THEN FreeExtendSame(fl, id, insert_pos, pos, count)
            ELSE IF ~pre_adj /\ post_adj = "Next"
                 THEN FreeExtendNext(fl, next, pos, count)
            ELSE IF pre_adj /\ post_adj = "Same"
                 THEN FreeMergeSame(fl, id, insert_pos, count)
            ELSE IF pre_adj /\ post_adj = "Next"
                 THEN FreeMergeNext(fl, id, next, insert_pos, count)
            ELSE FreeInsert(fl, id, insert_pos, pos, count)

\* the filter_map iterator of allocate, one call of its next(): the next
\* chunk that holds an entry, with the entry max_by_key_with_cutoff picks in
\* it (key = its len, idx = its position); chunks without entries are skipped
RECURSIVE NextItem(_, _, _, _)
NextItem(chunks, cur, seen, count) ==
    LET stop(how) == [status |-> how, c_id |-> Empty, key |-> 0, idx |-> 0,
                      cur |-> cur, seen |-> seen]
    IN  IF cur = Empty THEN stop("end")
        ELSE IF cur \notin DOMAIN chunks THEN stop("panic")
        ELSE IF chunks[cur].kind = "raw" THEN stop("ub")
        ELSE IF cur \in seen THEN stop("hang")
        ELSE LET c == chunks[cur]
                 m == max_by_key_with_cutoff(Lens(c.ents), count)
             IN  IF m = 0
                 THEN NextItem(chunks, c.next_hint, seen \cup {cur}, count)
                 ELSE [status |-> "item", c_id |-> cur, key |-> c.ents[m].len,
                       idx |-> m, cur |-> c.next_hint, seen |-> seen \cup {cur}]

\* the for loop of allocate over the remaining items: a strictly larger
\* entry replaces max and ends the search when it reaches count; pre is set
\* to the chunk of every item the loop body completes on
RECURSIVE AllocLoop(_, _, _, _, _, _)
AllocLoop(chunks, cur, seen, max, pre, count) ==
    LET it == NextItem(chunks, cur, seen, count)
    IN  IF it.status = "end" THEN [status |-> "ok", max |-> max, pre |-> pre]
        ELSE IF it.status # "item"
             THEN [status |-> it.status, max |-> max, pre |-> pre]
        ELSE IF it.key > max.key
             THEN IF it.key >= count
                  THEN [status |-> "ok", max |-> it, pre |-> pre]
                  ELSE AllocLoop(chunks, it.cur, it.seen, it, it.c_id, count)
             ELSE AllocLoop(chunks, it.cur, it.seen, max, it.c_id, count)

\* the search of allocate: the chosen chunk and entry (max) and pre
AllocSearch(fl, count) ==
    LET first == NextItem(fl.chunks, fl.initial, {}, count)
    IN  IF first.status = "item" /\ first.key < count
        THEN AllocLoop(fl.chunks, first.cur, first.seen, first, Empty, count)
        ELSE [status |-> IF first.status = "item" THEN "ok" ELSE first.status,
              max |-> first, pre |-> Empty]

\* what a call returns: Ok(start) is ("Ok", start, count), Err((start, len))
\* is ("Err", start, len); a call that does not return has kind "panic",
\* "hang" or "ub"
Ret(kind, start, n) == [kind |-> kind, start |-> start, len |-> n]

\* allocate once the entry is chosen: take from the start of the entry,
\* remove an entry left empty, and release a chunk left empty
AllocTake(fl, chunk_id, idx, pre, count) ==
    LET free_entry == fl.chunks[chunk_id].ents[idx]
        to_alloc == IF count < free_entry.len THEN count ELSE free_entry.len
        start == free_entry.start
        c1 == [fl.chunks EXCEPT ![chunk_id].ents[idx] = EntryAllocate(@, to_alloc)]
        c2 == IF c1[chunk_id].ents[idx].len = 0
              THEN [c1 EXCEPT ![chunk_id] = remove(@, idx - 1).chunk]
              ELSE c1
        next_hint == c2[chunk_id].next_hint
        after ==
            IF len(c2[chunk_id]) # 0 THEN [fl EXCEPT !.chunks = c2]
            ELSE IF pre # Empty
                 THEN free([fl EXCEPT !.chunks =
                               [[c2 EXCEPT ![chunk_id] = drop(@)]
                                    EXCEPT ![pre].next_hint = next_hint]],
                           chunk_id, 1)
            ELSE IF next_hint # Empty
                 THEN free([fl EXCEPT !.initial = next_hint,
                                      !.chunks = [c2 EXCEPT ![chunk_id] = drop(@)]],
                           chunk_id, 1)
            ELSE [fl EXCEPT !.chunks = c2]
    IN  [fl |-> after,
         ret |-> IF after.status # "ok" THEN Ret(after.status, 0, 0)
                 ELSE IF to_alloc = count THEN Ret("Ok", start, count)
                 ELSE Ret("Err", start, to_alloc)]

\* FreeList::allocate
allocate(fl, count) ==
    LET s == AllocSearch(fl, count)
    IN  IF s.status = "end" THEN [fl |-> fl, ret |-> Ret("Err", 0, 0)]
        ELSE IF s.status # "ok"
             THEN [fl |-> Fail(fl, fl.chunks, s.status), ret |-> Ret(s.status, 0, 0)]
        ELSE AllocTake(fl, s.max.c_id, s.max.idx, s.pre, count)

\* FreeList::new on a slab of n cells: the root chunk is initialised at cell
\* initial and gets the entry {0, initial} and, when remain > 0,
\* {initial + 1, remain}
new(n, initial) ==
    LET base0 == push(initialize, Entry(0, initial)).chunk
        remain == IF n > initial + 1 THEN n - (initial + 1) ELSE 0
        base == IF remain > 0
                THEN push(base0, Entry(initial + 1, remain)).chunk
                ELSE base0
    IN  [chunks |-> [i \in 0 .. (n - 1) |-> IF i = initial THEN base ELSE RawCell],
         initial |-> initial,
         status |-> "ok"]

\* ------------------------------------------------------------------ state
\* chunks:      the slab
\* initial:     FreeList::initial, the root index
\* root:        the root index FreeList::new was called with
\* allocations: the Vec<Entry> in which the client records the ranges
\*              allocate returned, as the alloc_free test does: a bag of
\*              {start, len} with len > 0 (the Vec without its order, which
\*              no call depends on).  A range that allocate returns while
\*              it is recorded is recorded again, and freed once for each
\*              record.
\* last:        the last call and what it returned.  For allocate, prefree is
\*              the sum of the lens of the extents on the list (TotalFree)
\*              before the call; for a pass of the test's loops it is the
\*              count the pass took first.  For a free that gives back the range the call before
\*              it, an allocate, returned as Ok, undo is the sum of all entry
\*              lens before that allocate.
VARIABLES chunks, initial, root, allocations, last

vars == << chunks, initial, root, allocations, last >>

Range(start, n) == start .. (start + n - 1)

\* the cells of the slab
Cells == DOMAIN chunks

Self == [chunks |-> chunks, initial |-> initial, status |-> "ok"]

\* the call returned (it did not panic, hang or read a raw cell)
Returned == last.kind \in {"Ok", "Err", "unit"}

\* the client goes on calling: the last call returned and it was not a free
\* of cells that were free already
Live == Returned /\ last.op # "free again"

\* the chunks a cursor started at i yields before its link is empty or
\* repeats, in order
RECURSIVE Walk(_, _, _)
Walk(ch, i, seen) ==
    IF i \notin DOMAIN ch \/ i \in seen THEN << >>
    ELSE << i >> \o Walk(ch, ch[i].next_hint, seen \cup {i})

ChunkIds == Walk(chunks, initial, {})

RECURSIVE Flatten(_, _)
Flatten(ch, ids) ==
    IF Len(ids) = 0 THEN << >>
    ELSE ch[Head(ids)].ents \o Flatten(ch, Tail(ids))

\* every extent reachable from the root, in list order
Extents == Flatten(chunks, ChunkIds)

RECURSIVE SumLen(_)
SumLen(es) == IF Len(es) = 0 THEN 0 ELSE Head(es).len + SumLen(Tail(es))

\* the sum of the lens of the extents on the list, the extents of a chunk
\* that the links reach more than once counted once
TotalFree == SumLen(Extents)

\* how an iteration over the chunks of the list from cell i ends: "ok" at
\* the empty link; a link met a second time is followed for ever ("hang")
RECURSIVE IterEnd(_, _, _)
IterEnd(ch, i, seen) ==
    IF i = Empty THEN "ok"
    ELSE IF i \notin DOMAIN ch THEN "panic"
    ELSE IF ch[i].kind = "raw" THEN "ub"
    ELSE IF i \in seen THEN "hang"
    ELSE IterEnd(ch, ch[i].next_hint, seen \cup {i})

\* count_free_chunks of the alloc_free test on the list l: the sum of the
\* lens of all entries the iterator yields; it returns only if the
\* iteration ends
count_free_chunks(l) ==
    LET end == IterEnd(l.chunks, l.initial, {})
    IN  [status |-> end,
         val |-> IF end = "ok"
                 THEN SumLen(Flatten(l.chunks, Walk(l.chunks, l.initial, {})))
                 ELSE 0]

\* the inner loop of check_disjunct over the entries of one chunk: every
\* entry starts at or after last_free, the end of the entry before it
RECURSIVE CheckEntries(_, _)
CheckEntries(es, last_free) ==
    IF Len(es) = 0 THEN [ok |-> TRUE, last_free |-> last_free]
    ELSE IF Head(es).start < last_free
         THEN [ok |-> FALSE, last_free |-> last_free]
    ELSE CheckEntries(Tail(es), Head(es).start + Head(es).len)

\* the outer loop of check_disjunct over the chunks from cell i: "panic"
\* when the assertion fails, "hang" when the iteration comes back to a
\* chunk with the last_free it had there before
RECURSIVE CheckChunks(_, _, _, _)
CheckChunks(ch, i, last_free, seen) ==
    IF i = Empty THEN "ok"
    ELSE IF i \notin DOMAIN ch THEN "panic"
    ELSE IF ch[i].kind = "raw" THEN "ub"
    ELSE IF << i, last_free >> \in seen THEN "hang"
    ELSE LET e == CheckEntries(ch[i].ents, last_free)
         IN  IF ~e.ok THEN "panic"
             ELSE CheckChunks(ch, ch[i].next_hint, e.last_free,
                              seen \cup {<< i, last_free >>})

\* check_disjunct of the alloc_free test on the list l
check_disjunct(l) == CheckChunks(l.chunks, l.initial, 0, {})

\* the cells that host the chunks reachable from the root
Meta == {ChunkIds[i] : i \in 1 .. Len(ChunkIds)}

\* the cells covered by an extent reachable from the root
Covered == UNION {Range(Extents[i].start, Extents[i].len) : i \in 1 .. Len(Extents)}

\* the ranges that are recorded, each once
Recorded == BagToSet(allocations)

\* allocations.push(e)
Record(recs, e) == recs (+) SetToBag({e})

\* allocations.remove(i), e the record at i
Unrecord(recs, e) == recs (-) SetToBag({e})

\* no range has more than MaxCopies records
Bounded(recs) == \A e \in BagToSet(recs) : CopiesIn(e, recs) <= MaxCopies

\* the cells inside a range returned by allocate and not yet freed
Lent == UNION {Range(a.start, a.len) : a \in Recorded}

\* FreeList::new(c, r) has just returned, c a slab of n cells
Created(n, r) ==
    /\ chunks = new(n, r).chunks
    /\ initial = r
    /\ root = r
    /\ allocations = EmptyBag
    /\ last = [op |-> "new", pos |-> r, count |-> 0, kind |-> "unit",
               start |-> 0, len |-> 0, prefree |-> 0, undo |-> NoneV]

\* any cell is the root
Init == \E r \in 0 .. (NSmall - 1) : Created(NSmall, r)

\* the root has cells on both sides (0 < r < N - 1)
InitInner == \E r \in 1 .. (NChunks - 2) : Created(NChunks, r)

\* freelist.allocate(count); a range of at least one cell is recorded
Allocate(count) ==
    /\ Live
    /\ LET r == allocate(Self, count)
       IN  /\ chunks' = r.fl.chunks
           /\ initial' = r.fl.initial
           /\ allocations' = IF r.ret.kind \in {"Ok", "Err"} /\ r.ret.len > 0
                             THEN Record(allocations,
                                         Entry(r.ret.start, r.ret.len))
                             ELSE allocations
           /\ Bounded(allocations')
           /\ last' = [op |-> "allocate", pos |-> 0, count |-> count,
                       kind |-> r.ret.kind, start |-> r.ret.start,
                       len |-> r.ret.len, prefree |-> TotalFree,
                       undo |-> NoneV]
    /\ UNCHANGED root

\* freelist.free(a.start, a.len) of a recorded range
Free(a) ==
    /\ Live
    /\ a \in Recorded
    /\ LET r == free(Self, a.start, a.len)
       IN  /\ chunks' = r.chunks
           /\ initial' = r.initial
           /\ allocations' = Unrecord(allocations, a)
           /\ last' = [op |-> "free", pos |-> a.start, count |-> a.len,
                       kind |-> IF r.status = "ok" THEN "unit" ELSE r.status,
                       start |-> 0, len |-> 0, prefree |-> 0,
                       undo |-> IF /\ last.op = "allocate"
                                   /\ last.kind = "Ok"
                                   /\ a = Entry(last.start, last.len)
                                THEN Some(last.prefree) ELSE NoneV]
    /\ UNCHANGED root

\* freelist.free(pos, count) of a range of slab cells of which at least one is
\* covered by a free extent already; the run is not followed further
FreeAgain(pos, count) ==
    /\ Live
    /\ Range(pos, count) \subseteq Cells
    /\ Range(pos, count) \cap Covered # {}
    /\ LET r == free(Self, pos, count)
       IN  /\ chunks' = r.chunks
           /\ initial' = r.initial
           /\ last' = [op |-> "free again", pos |-> pos, count |-> count,
                       kind |-> IF r.status = "ok" THEN "unit" ELSE r.status,
                       start |-> 0, len |-> 0, prefree |-> 0, undo |-> NoneV]
    /\ UNCHANGED << root, allocations >>

Next ==
    \/ \E count \in 1 .. MaxCount : Allocate(count)
    \/ \E a \in Recorded : Free(a)

NextAgain ==
    \/ Next
    \/ \E pos \in Cells, count \in 1 .. MaxCount : FreeAgain(pos, count)

Spec == Init /\ [][Next]_vars

SpecInner == InitInner /\ [][Next]_vars

\* as SpecInner, and the client may free cells that are free
SpecAgain == InitInner /\ [][NextAgain]_vars

\* the 'retry loop of alloc_free::alloc: allocate(size) is called until it
\* returns Ok, with check_disjunct after every call; a partial result
\* Err((pos, len)) is recorded and the call is made again for the size - len
\* cells still missing; Err((_, 0)) ends the request unsatisfied.  pushed
\* is allocations with the entries pushed so far.
RECURSIVE retry(_, _, _)

\* the match of the 'retry loop on alloc, what allocate(size) returned,
\* reached when check_disjunct has returned (check = "ok")
RetryMatch(alloc, check, size, pushed) ==
    IF alloc.ret.kind \notin {"Ok", "Err"}
    THEN [fl |-> alloc.fl, ret |-> alloc.ret, pushed |-> pushed]
    ELSE IF check # "ok"
         THEN [fl |-> alloc.fl, ret |-> Ret(check, 0, 0), pushed |-> pushed]
    ELSE IF alloc.ret.kind = "Ok"
         THEN [fl |-> alloc.fl, ret |-> alloc.ret,
               pushed |-> Record(pushed, Entry(alloc.ret.start, size))]
    ELSE IF alloc.ret.len # 0
         THEN retry(alloc.fl, size - alloc.ret.len,
                    Record(pushed, Entry(alloc.ret.start, alloc.ret.len)))
    ELSE [fl |-> alloc.fl, ret |-> alloc.ret, pushed |-> pushed]

\* one pass of the 'retry loop after alloc = freelist.allocate(size)
RetryChecked(alloc, size, pushed) ==
    RetryMatch(alloc, check_disjunct(alloc.fl), size, pushed)

retry(fl, size, pushed) == RetryChecked(allocate(fl, size), size, pushed)

\* the state after a request for tgt cells whose 'retry loop ended in r,
\* pre and post the counts taken before and after the loop.  A loop left
\* at break 'outer (Err((_, 0))) takes no count after it.  For a loop left
\* by Ok, last.start and last.len are the range of the last allocate, and
\* last.kind is "Ok" when assert_eq!(pre - post, tgt) holds and "panic" when
\* it fails or pre - post overflows.
Requested(r, post, pre, tgt) ==
    /\ chunks' = r.fl.chunks
    /\ initial' = r.fl.initial
    /\ allocations' = r.pushed
    /\ Bounded(r.pushed)
    /\ last' = [op |-> "alloc", pos |-> 0, count |-> tgt,
                kind |-> IF r.ret.kind # "Ok" THEN r.ret.kind
                         ELSE IF post.status # "ok" THEN post.status
                         ELSE IF pre - post.val = tgt THEN "Ok"
                         ELSE "panic",
                start |-> r.ret.start,
                len |-> r.ret.len, prefree |-> pre,
                undo |-> NoneV]

\* the request once its 'retry loop has ended in r
RequestEnd(r, pre, tgt) == Requested(r, count_free_chunks(r.fl), pre, tgt)

\* a request for tgt cells whose first count is pre: a count that does not
\* return ends the run before any allocate
RequestFrom(pre, tgt) ==
    IF pre.status # "ok"
    THEN /\ last' = [op |-> "alloc", pos |-> 0, count |-> tgt,
                     kind |-> pre.status, start |-> 0, len |-> 0,
                     prefree |-> 0, undo |-> NoneV]
         /\ UNCHANGED << chunks, initial, allocations >>
    ELSE RequestEnd(retry(Self, tgt, allocations), pre.val, tgt)

\* one pass of the 'outer loop of alloc_free::alloc for a request of tgt
\* cells
AllocRequest(tgt) ==
    /\ Live
    /\ RequestFrom(count_free_chunks(Self), tgt)
    /\ UNCHANGED root

\* the state after one pass of the loop of alloc_free::free for the
\* recorded range a, r the list free left, pre and post the counts before
\* and after the call, check what check_disjunct did: the pass panics when
\* the count rose by less than a.len - 1
FreeChecked(r, post, check, pre, a) ==
    /\ chunks' = r.chunks
    /\ initial' = r.initial
    /\ allocations' = Unrecord(allocations, a)
    /\ last' = [op |-> "free", pos |-> a.start, count |-> a.len,
                kind |-> IF r.status # "ok" THEN r.status
                         ELSE IF post.status # "ok" THEN post.status
                         ELSE IF post.val + 1 < pre + a.len THEN "panic"
                         ELSE IF check # "ok" THEN check
                         ELSE "unit",
                start |-> 0, len |-> 0, prefree |-> pre, undo |-> NoneV]

\* the pass once free has left the list r
FreeEnd(r, pre, a) ==
    FreeChecked(r, count_free_chunks(r), check_disjunct(r), pre, a)

\* the pass whose first count is pre: a count that does not return ends the
\* run before the call of free, the range taken from allocations already
FreeFrom(pre, a) ==
    IF pre.status # "ok"
    THEN /\ last' = [op |-> "free", pos |-> a.start, count |-> a.len,
                     kind |-> pre.status, start |-> 0, len |-> 0,
                     prefree |-> 0, undo |-> NoneV]
         /\ allocations' = Unrecord(allocations, a)
         /\ UNCHANGED << chunks, initial >>
    ELSE FreeEnd(free(Self, a.start, a.len), pre.val, a)

\* one pass of the loop of alloc_free::free, for the recorded range a
FreeRequest(a) ==
    /\ Live
    /\ a \in Recorded
    /\ FreeFrom(count_free_chunks(Self), a)
    /\ UNCHANGED root

NextRequest ==
    \/ \E tgt \in 1 .. MaxCount : AllocRequest(tgt)
    \/ \E a \in Recorded : FreeRequest(a)

\* the alloc_free test with the root of InitInner: requests and frees of
\* recorded ranges in any order, each with the counts and checks the test
\* makes around it; a run ends at the first call that does not return and
\* at the first assertion that fails
SpecRequest == InitInner /\ [][NextRequest]_vars

\* ---------------------------------------------------------- a chunk alone
\* The tests of chunk.rs: cell 0 holds a chunk made by Chunk::new, cell 1 is
\* the store handed to split as other.  Elements are small numbers.  Here
\* last is the last call on the chunk of cell 0: its arguments, what it
\* returned (kind "Some" or "None" with ret, "unit" for a split that
\* returned, "panic"), the chunk and the store before the call (pre, store)
\* and, for a remove at the index of an insert that was the call before it
\* and succeeded, the element inserted and the elements before the insert
\* (undo).

\* largest element pushed or inserted
MaxValue == 3

Values == 1 .. MaxValue

\* the indices passed to insert, remove and split; the largest is out of
\* bounds for every chunk
Indices == 0 .. (Capacity + 1)

\* the chunk the calls are made on, and the store passed to split
own == chunks[0]
other == chunks[1]

Call(op, index, value, kind, ret, undo) ==
    [op |-> op, index |-> index, value |-> value, kind |-> kind, ret |-> ret,
     pre |-> own, store |-> other, undo |-> undo]

KindOf(ret) == IF ret.some THEN "Some" ELSE "None"

\* let chunk = Chunk::new(*store); the second store is uninitialised
InitChunk ==
    /\ chunks = [i \in 0 .. 1 |-> IF i = 0 THEN initialize ELSE RawCell]
    /\ initial = 0
    /\ root = 0
    /\ allocations = {}
    /\ last = Call("new", 0, 0, "unit", NoneV, NoneV)

\* no call has panicked
Running == last.kind # "panic"

\* chunk.push(value)
Push(value) ==
    /\ Running
    /\ LET r == push(own, value)
       IN  /\ chunks' = [chunks EXCEPT ![0] = r.chunk]
           /\ last' = Call("push", 0, value, KindOf(r.ret), r.ret, NoneV)
    /\ UNCHANGED << initial, root, allocations >>

\* chunk.pop()
Pop ==
    /\ Running
    /\ LET r == pop(own)
       IN  /\ chunks' = [chunks EXCEPT ![0] = r.chunk]
           /\ last' = Call("pop", 0, 0, KindOf(r.ret), r.ret, NoneV)
    /\ UNCHANGED << initial, root, allocations >>

\* chunk.insert(index, element)
Insert(index, element) ==
    /\ Running
    /\ LET r == insert(own, index, element)
       IN  /\ chunks' = [chunks EXCEPT ![0] = r.chunk]
           /\ last' = Call("insert", index, element, KindOf(r.ret), r.ret, NoneV)
    /\ UNCHANGED << initial, root, allocations >>

\* chunk.remove(index)
Remove(index) ==
    /\ Running
    /\ LET r == remove(own, index)
       IN  /\ chunks' = [chunks EXCEPT ![0] = r.chunk]
           /\ last' = Call("remove", index, 0, KindOf(r.ret), r.ret,
                           IF /\ last.op = "insert"
                              /\ last.kind = "None"
                              /\ last.index = index
                           THEN Some([element |-> last.value,
                                      ents |-> last.pre.ents])
                           ELSE NoneV)
    /\ UNCHANGED << initial, root, allocations >>

\* chunk.split(index, &mut store): other is initialised also when the call
\* panics
Split(index) ==
    /\ Running
    /\ LET r == split(own, index)
       IN  /\ chunks' = [[chunks EXCEPT ![0] = r.self] EXCEPT ![1] = r.other]
           /\ last' = Call("split", index, 0,
                           IF r.panic THEN "panic" ELSE "unit", NoneV, NoneV)
    /\ UNCHANGED << initial, root, allocations >>

\* chunk.next_hint = link, the assignment the users of split make to an
\* initialised chunk: the link is empty or names the other cell
SetNextHint(cell, link) ==
    /\ Running
    /\ chunks[cell].kind = "chunk"
    /\ link # cell
    /\ chunks[cell].next_hint # link
    /\ chunks' = [chunks EXCEPT ![cell].next_hint = link]
    /\ last' = Call("next_hint", cell, link, "unit", NoneV, NoneV)
    /\ UNCHANGED << initial, root, allocations >>

NextChunk ==
    \/ \E value \in Values : Push(value)
    \/ Pop
    \/ \E index \in Indices, element \in Values : Insert(index, element)
    \/ \E index \in Indices : Remove(index)

\* the chunk is filled and emptied by push and pop, as in the split test
NextSplit ==
    \/ \E value \in Values : Push(value)
    \/ Pop
    \/ \E index \in Indices : Split(index)
    \/ \E cell \in DOMAIN chunks, link \in {Empty} \cup DOMAIN chunks :
           SetNextHint(cell, link)

\* push, pop, insert and remove on one chunk
SpecChunk == InitChunk /\ [][NextChunk]_vars

\* push, pop and split on one chunk, with next_hint assigned
SpecSplit == InitChunk /\ [][NextSplit]_vars

\* ------------------------------------------------------ a cursor alone
\* A slab of NCursor initialised chunks linked without a cycle, and a cursor
\* made by new(data, start).  Here initial is start and last is the cursor
\* and its last advance: before and current are the link the cursor held
\* before and holds after the advance, ret what it yielded, yielded the
\* indices yielded so far.

\* number of cells of the slab the cursor walks
NCursor == 4

\* every walk along next_hint ends at the empty link
Acyclic(ch) ==
    \A i \in DOMAIN ch :
        LET w == Walk(ch, i, {})
        IN  ch[w[Len(w)]].next_hint = Empty

InitCursor ==
    /\ \E links \in [0 .. (NCursor - 1) -> {Empty} \cup 0 .. (NCursor - 1)] :
           chunks = [i \in 0 .. (NCursor - 1) |->
                        [initialize EXCEPT !.next_hint = links[i]]]
    /\ Acyclic(chunks)
    /\ initial \in DOMAIN chunks
    /\ root = initial
    /\ allocations = {}
    /\ last = [op |-> "new", before |-> initial, current |-> initial,
               ret |-> NoneV, yielded |-> << >>]

\* cursor.next()
CursorNext ==
    /\ LET r == iter_next(chunks, last.current)
       IN  last' = [op |-> "next", before |-> last.current,
                    current |-> r.current, ret |-> r.ret,
                    yielded |-> IF r.ret.some
                                THEN Append(last.yielded, r.ret.val)
                                ELSE last.yielded]
    /\ UNCHANGED << chunks, initial, root, allocations >>

NextCursor == CursorNext

SpecCursor == InitCursor /\ [][NextCursor]_vars

\* ---------------------------------------------------------- Superblock
\* Cell 0 is the superblock, a chunk of NEntries entries (AtomicBool,
\* (usize, usize)); ents[pos + 1] is the flag of entry pos.  lock(pos) lets
\* pos = len pass its bounds check (pos > len panics), so the slot after the
\* last entry takes part: root is the flag byte of that slot, memory of the
\* chunk's buffer that nobody initialised, zero (FALSE) or not (TRUE).
\* NCallers threads share the superblock.  Here last maps each thread to its
\* call: pc is "idle", "lock" (inside lock(pos), bounds checked, before the
\* compare_and_swap), "held" (lock returned Some and unlock has not been
\* called) or "panic"; ret is what its last lock returned; contended tells
\* whether another thread held the entry at the moment of the
\* compare_and_swap of that lock.

\* number of threads
NCallers == 2

\* number of entries of the superblock (its len)
NEntries == 2

Callers == 1 .. NCallers

\* thread t holds entry pos
Holds(t, pos) == last[t].pc = "held" /\ last[t].pos = pos

\* the flag lock(pos) reaches through entries.add(pos)
Flag(pos) == IF pos < len(chunks[0]) THEN chunks[0].ents[pos + 1] ELSE root

\* the flag at pos is stored
StoreFlag(pos, flag) ==
    IF pos < len(chunks[0])
    THEN chunks' = [chunks EXCEPT ![0].ents[pos + 1] = flag] /\ root' = root
    ELSE root' = flag /\ chunks' = chunks

InitSuperblock ==
    /\ chunks = [i \in 0 .. 0 |->
                    [initialize EXCEPT !.ents = [e \in 1 .. NEntries |-> FALSE]]]
    /\ initial = 0
    /\ root \in BOOLEAN
    /\ allocations = {}
    /\ last = [t \in Callers |->
                  [pc |-> "idle", pos |-> 0, ret |-> "none", contended |-> FALSE]]

\* lock(pos) up to the compare_and_swap: pos > len panics, any other pos
\* goes on, pos = len included
LockEnter(t, pos) ==
    /\ last[t].pc = "idle"
    /\ last' = [last EXCEPT
                   ![t].pc = IF pos > len(chunks[0]) THEN "panic" ELSE "lock",
                   ![t].pos = pos]
    /\ UNCHANGED << chunks, initial, root, allocations >>

\* lock(pos), the compare_and_swap(false, true) and the return
LockSwap(t) ==
    /\ last[t].pc = "lock"
    /\ LET pos == last[t].pos
           r == compare_and_swap(Flag(pos), FALSE, TRUE)
       IN  /\ StoreFlag(pos, r.flag)
           /\ last' = [last EXCEPT
                          ![t].pc = IF r.ret = FALSE THEN "held" ELSE "idle",
                          ![t].ret = IF r.ret = FALSE THEN "Some" ELSE "None",
                          ![t].contended =
                              \E u \in Callers \ {t} : Holds(u, pos)]
    /\ UNCHANGED << initial, allocations >>

\* unlock(pos) by the thread that holds pos: lockblock[pos] panics for
\* pos = len (the slice has len entries); otherwise compare_and_swap(false,
\* true) returns true on a locked flag and leaves it as it is
Unlock(t) ==
    /\ last[t].pc = "held"
    /\ LET pos == last[t].pos
           r == compare_and_swap(Flag(pos), FALSE, TRUE)
       IN  IF pos >= len(chunks[0])
           THEN /\ last' = [last EXCEPT ![t].pc = "panic"]
                /\ UNCHANGED << chunks, root >>
           ELSE /\ StoreFlag(pos, r.flag)
                /\ last' = [last EXCEPT
                               ![t].pc = IF r.ret = TRUE THEN "idle" ELSE "panic"]
    /\ UNCHANGED << initial, allocations >>

\* unlock(pos) on an entry that is not locked, by a thread that holds
\* nothing: compare_and_swap(false, true) returns false, the call panics;
\* for pos = len it panics in lockblock[pos] before that
UnlockUnlocked(t, pos) ==
    /\ last[t].pc = "idle"
    /\ pos <= len(chunks[0])
    /\ Flag(pos) = FALSE
    /\ LET r == compare_and_swap(Flag(pos), FALSE, TRUE)
       IN  IF pos >= len(chunks[0])
           THEN /\ last' = [last EXCEPT ![t].pc = "panic", ![t].pos = pos]
                /\ UNCHANGED << chunks, root >>
           ELSE /\ StoreFlag(pos, r.flag)
                /\ last' = [last EXCEPT
                               ![t].pc = IF r.ret = TRUE THEN "idle" ELSE "panic",
                               ![t].pos = pos]
    /\ UNCHANGED << initial, allocations >>

NextSuperblock ==
    \/ \E t \in Callers, pos \in 0 .. (NEntries + 1) : LockEnter(t, pos)
    \/ \E t \in Callers : LockSwap(t)
    \/ \E t \in Callers : Unlock(t)
    \/ \E t \in Callers, pos \in 0 .. NEntries : UnlockUnlocked(t, pos)

SpecSuperblock == InitSuperblock /\ [][NextSuperblock]_vars

\* ------------------------------------------- max_by_key_with_cutoff alone
\* The max_cutoff test of slicelist.rs: a.iter().max_by_key_with_cutoff(
\* |e| **e, cutoff) on arrays a of at most MaxLen keys.  Here last is the
\* call: the keys in iteration order, the cutoff and the (1-based) position
\* of the item returned, 0 for None.

\* largest number of items of an iterator
MaxLen == 3

\* the arrays of keys
KeySeqs == UNION {[1 .. n -> Values] : n \in 0 .. MaxLen}

\* the cutoffs: the largest is above every key
Cutoffs == 1 .. (MaxValue + 1)

InitCutoff ==
    /\ chunks = << >>
    /\ initial = Empty
    /\ root = Empty
    /\ allocations = {}
    /\ last = [op |-> "new", keys |-> << >>, cutoff |-> 0, ret |-> 0]

MaxCutoff(keys, cutoff) ==
    /\ last' = [op |-> "max_by_key_with_cutoff", keys |-> keys,
                cutoff |-> cutoff,
                ret |-> max_by_key_with_cutoff(keys, cutoff)]
    /\ UNCHANGED << chunks, initial, root, allocations >>

NextCutoff == \E keys \in KeySeqs, cutoff \in Cutoffs : MaxCutoff(keys, cutoff)

SpecCutoff == InitCutoff /\ [][NextCutoff]_vars

\* ------------------------------------------------- owning sequence (anchor)
\* The chunks of an owning sequence live in boxes.  chunks maps a box to
\* its chunk (a raw cell is a box not yet allocated), initial is
\* Anchor::start (Empty for none), root is the AnchorIteratorMut, a record
\* [chunk, first] as in the source, allocations is the sequence of chunks
\* the cursor has yielded since it was made, and last describes the last
\* call.

\* the boxes an owning sequence may allocate
NBoxes == 3

\* the pushes made on an owning sequence
MaxPushes == 3

Boxes == 0 .. (NBoxes - 1)

\* the needles: 0 is below every element, the largest above every element
Needles == 0 .. (MaxValue + 1)

\* an advance that looked up the successor when it yielded the chunk
AnchorIteratorMut_next_cached(ch, it) ==
    IF it.chunk # Empty
    THEN [it |-> [chunk |-> ch[it.chunk].next_hint, first |-> FALSE],
          ret |-> Some(it.chunk)]
    ELSE [it |-> it, ret |-> NoneV]

\* AnchorIteratorMut::next: the cursor holds the chunk it yielded last; the
\* first advance yields it without moving, every other advance moves to
\* its next_hint as it is then
AnchorIteratorMut_next(ch, it) ==
    IF it.chunk # Empty
    THEN LET moved == IF it.first
                      THEN [it EXCEPT !.first = FALSE]
                      ELSE [it EXCEPT !.chunk = ch[it.chunk].next_hint]
         IN  [it |-> moved,
              ret |-> IF moved.chunk = Empty THEN NoneV
                      ELSE Some(moved.chunk)]
    ELSE [it |-> it, ret |-> NoneV]

\* a split that leaves the link of the new chunk empty
ChunkMut_split_unswapped(ch, c, pos, k) ==
    LET s == split(ch[c], pos)
    IN  IF s.panic
        THEN [panic |-> TRUE, chunks |-> ch]
        ELSE [panic |-> FALSE,
              chunks |-> [ch EXCEPT
                             ![c] = [s.self EXCEPT !.next_hint = k],
                             ![k] = s.other]]

\* ChunkMut::split: Chunk::split into a new box k, then the new chunk takes
\* over the successor and becomes the successor
ChunkMut_split(ch, c, pos, k) ==
    LET s == split(ch[c], pos)
    IN  IF s.panic
        THEN [panic |-> TRUE, chunks |-> ch]
        ELSE [panic |-> FALSE,
              chunks |-> [ch EXCEPT
                             ![c] = [s.self EXCEPT !.next_hint = k],
                             ![k] = [s.other EXCEPT
                                        !.next_hint = ch[c].next_hint]]]

\* ChunkMut::has_next
has_next(c) == c.next_hint # Empty

\* ChunkMut::push: Chunk::push; when that hands the element back, split at
\* len - 1 and push onto the new chunk, unwrapping what that push returns
ChunkMut_push(ch, c, element, k) ==
    LET r == push(ch[c], element)
    IN  IF ~r.ret.some
        THEN [panic |-> FALSE, chunks |-> [ch EXCEPT ![c] = r.chunk]]
        ELSE LET s == ChunkMut_split(ch, c, len(ch[c]) - 1, k)
                 n == s.chunks[c].next_hint
                 r2 == push(s.chunks[n], r.ret.val)
             IN  IF s.panic THEN s
                 ELSE [panic |-> ~r2.ret.some,
                       chunks |-> [s.chunks EXCEPT ![n] = r2.chunk]]

\* the halving loop of slice::binary_search over plain elements
RECURSIVE SliceSearchLoop(_, _, _, _)
SliceSearchLoop(s, x, base, size) ==
    IF size > 1
    THEN LET half == size \div 2
             mid == base + half
         IN  SliceSearchLoop(s, x, IF s[mid + 1] > x THEN base ELSE mid,
                             size - half)
    ELSE base

\* slice::binary_search: Ok(idx) or Err(idx), idx counted from 0
binary_search(s, x) ==
    IF Len(s) = 0 THEN [ok |-> FALSE, idx |-> 0]
    ELSE LET base == SliceSearchLoop(s, x, 0, Len(s))
         IN  IF s[base + 1] = x THEN [ok |-> TRUE, idx |-> base]
             ELSE [ok |-> FALSE,
                   idx |-> IF s[base + 1] < x THEN base + 1 ELSE base]

\* the loop of AnchorIteratorMut::search; seen collects the chunks yielded
\* by its advances.  kind is "Ok", "Err" or "panic" (the unreachable!
\* behind the loop).
RECURSIVE SearchLoop(_, _, _, _, _, _)
SearchLoop(ch, it, needle, past_min, count, seen) ==
    LET n == AnchorIteratorMut_next(ch, it)
    IN  IF ~n.ret.some
        THEN [kind |-> "panic", count |-> count, pos |-> 0, it |-> n.it,
              seen |-> seen]
        ELSE
        LET c == ch[n.ret.val]
            yielded == Append(seen, n.ret.val)
        IN  IF len(c) = 0
            THEN SearchLoop(ch, n.it, needle, past_min, count + 1, yielded)
            ELSE
            LET pm == past_min \/ needle >= c.ents[1]
                bs == binary_search(c.ents, needle)
            IN  IF pm /\ needle <= c.ents[len(c)]
                THEN [kind |-> IF bs.ok THEN "Ok" ELSE "Err",
                      count |-> count + 1, pos |-> bs.idx, it |-> n.it,
                      seen |-> yielded]
                ELSE IF ~has_next(c)
                THEN [kind |-> "Err", count |-> count + 1, pos |-> len(c),
                      it |-> n.it, seen |-> yielded]
                ELSE SearchLoop(ch, n.it, needle, pm, count + 1, yielded)

\* AnchorIteratorMut::search
AnchorIteratorMut_search(ch, it, needle) ==
    SearchLoop(ch, it, needle, FALSE, 0, << >>)

\* Box::new: the first box not yet allocated
NewBox == CHOOSE k \in Boxes :
              /\ chunks[k].kind = "raw"
              /\ \A j \in Boxes : chunks[j].kind = "raw" => k <= j

HasBox == \E k \in Boxes : chunks[k].kind = "raw"

\* the elements of the sequence in link order
Elements == Flatten(chunks, ChunkIds)

\* the chunk the consumer can hold the handle of: the cursor's chunk, which
\* get() returns whether or not the cursor has advanced, and which is the
\* chunk yielded last once it has; Empty when the cursor has none
Handle == root.chunk

AnchorCall(op, kind, ret, created, fresh, done, pushes) ==
    [op |-> op, kind |-> kind, ret |-> ret, created |-> created,
     fresh |-> fresh, done |-> done, pushes |-> pushes,
     count |-> 0, pos |-> 0]

\* Anchor::new() or Anchor::new_empty(), then iter_mut()
InitAnchor ==
    /\ initial \in {Empty, 0}
    /\ chunks = [k \in Boxes |->
                    IF k = initial THEN initialize ELSE RawCell]
    /\ root = [chunk |-> initial, first |-> TRUE]
    /\ allocations = << >>
    /\ last = AnchorCall("iter_mut", "unit", NoneV, Empty, TRUE, FALSE, 0)

\* the cursor is dropped and anchor.iter_mut() makes a new one
IterMut ==
    /\ Running
    /\ last.op # "iter_mut"
    /\ root' = [chunk |-> initial, first |-> TRUE]
    /\ allocations' = << >>
    /\ last' = AnchorCall("iter_mut", "unit", NoneV, Empty, TRUE, FALSE,
                          last.pushes)
    /\ UNCHANGED << chunks, initial >>

\* cursor.next()
AnchorNext ==
    /\ Running
    /\ LET n == AnchorIteratorMut_next(chunks, root)
       IN  /\ root' = n.it
           /\ allocations' = IF n.ret.some
                             THEN Append(allocations, n.ret.val)
                             ELSE allocations
           /\ last' = AnchorCall("next", "unit", n.ret,
                                 IF last.op = "split" THEN last.created
                                 ELSE Empty, FALSE,
                                 last.done \/ ~n.ret.some, last.pushes)
    /\ UNCHANGED << chunks, initial >>

\* split(pos) on the cursor's chunk
AnchorSplit(pos) ==
    /\ Running
    /\ Handle # Empty
    /\ HasBox
    /\ LET s == ChunkMut_split(chunks, Handle, pos, NewBox)
       IN  /\ chunks' = s.chunks
           /\ last' = AnchorCall("split",
                                 IF s.panic THEN "panic" ELSE "unit", NoneV,
                                 IF s.panic THEN Empty ELSE NewBox, FALSE,
                                 last.done, last.pushes)
    /\ UNCHANGED << initial, root, allocations >>

\* push(element) on the cursor's chunk
AnchorPush(element) ==
    /\ Running
    /\ Handle # Empty
    /\ HasBox
    /\ last.pushes < MaxPushes
    /\ LET r == ChunkMut_push(chunks, Handle, element, NewBox)
       IN  /\ chunks' = r.chunks
           /\ last' = AnchorCall("push",
                                 IF r.panic THEN "panic" ELSE "unit", NoneV,
                                 IF chunks[NewBox] # r.chunks[NewBox]
                                 THEN NewBox ELSE Empty, FALSE,
                                 last.done, last.pushes + 1)
    /\ UNCHANGED << initial, root, allocations >>

\* anchor.iter_mut().search(&needle): the search of a cursor just made
AnchorSearch(needle) ==
    /\ Running
    /\ last.op = "iter_mut"
    /\ LET r == AnchorIteratorMut_search(chunks, root, needle)
       IN  /\ root' = r.it
           /\ allocations' = allocations \o r.seen
           /\ last' = [AnchorCall("search", r.kind, NoneV, Empty, TRUE,
                                  last.done \/ r.kind = "panic", last.pushes)
                          EXCEPT !.count = r.count, !.pos = r.pos]
    /\ UNCHANGED << chunks, initial >>

NextAnchor ==
    \/ IterMut
    \/ AnchorNext
    \/ \E pos \in Indices : AnchorSplit(pos)
    \/ \E element \in Values : AnchorPush(element)
    \/ \E needle \in Needles : AnchorSearch(needle)

SpecAnchor == InitAnchor /\ [][NextAnchor]_vars

\* ------------------------------------------------------------------ claims

\* C1: in every state reached by new followed by allocate calls and free
\* calls on allocated ranges, the sum of len over all extents reachable from
\* the root equals N minus the number of cells inside ranges returned by
\* allocate and not yet freed minus the number of cells hosting a reachable
\* extent-chunk.
C1_SumOfLens ==
    Returned =>
        TotalFree
            = Cardinality(Cells) - Cardinality(Lent) - Cardinality(Meta)

\* C2: every range of at least one cell that allocate returns, as Ok or as
\* Err, lies within the slab, consisted only of cells covered by extents
\* immediately before the call, is covered by no extent after the call, and
\* is disjoint from every range returned earlier and not yet freed.
C2_AllocatedRange ==
    [][\A count \in 1 .. MaxCount :
         (Allocate(count) /\ last'.kind \in {"Ok", "Err"} /\ last'.len > 0)
         => LET R == Range(last'.start, last'.len)
            IN  /\ R \subseteq Cells
                /\ R \subseteq Covered
                /\ R \cap Covered' = {}
                /\ R \cap Lent = {}]_vars

\* C3: after new and after every allocate or free of an allocated range,
\* the extents in link order and index order have ascending start and never
\* overlap: each start is >= the previous extent's start + len.
C3_SortedDisjoint ==
    Returned =>
        \A i \in 1 .. (Len(Extents) - 1) :
            Extents[i + 1].start >= Extents[i].start + Extents[i].len

\* C4: after every allocate or free of an allocated range, no two consecutive
\* extents of the global order touch, also across a chunk boundary:
\* prev.start + prev.len < next.start.
C4_NoContact ==
    Returned =>
        \A i \in 1 .. (Len(Extents) - 1) :
            Extents[i].start + Extents[i].len < Extents[i + 1].start

\* C5: in every reachable state, no cell that hosts the root or an
\* extent-chunk reachable from the root is covered by an extent or lies
\* inside a range returned by allocate and not yet freed.
C5_MetadataNotLent ==
    Returned => Meta \cap (Covered \cup Lent) = {}

\* the extent C6 says allocate picks from es: the first with len >= count,
\* or if there is none the earliest of those with the largest len
FirstFitOrLargest(es, count) ==
    IF \E i \in 1 .. Len(es) : es[i].len >= count
    THEN CHOOSE i \in 1 .. Len(es) :
            /\ es[i].len >= count
            /\ \A j \in 1 .. (i - 1) : es[j].len < count
    ELSE CHOOSE i \in 1 .. Len(es) :
            /\ \A j \in 1 .. Len(es) : es[j].len <= es[i].len
            /\ \A j \in 1 .. (i - 1) : es[j].len < es[i].len

\* C6: for count >= 1 and a freelist with at least one free cell,
\* allocate(count) picks the first extent E in list order with len >= count,
\* or else the earliest extent of the largest len; it takes min(count, E.len)
\* cells from the start of E, so that what is left of E starts that much
\* later and is that much shorter, and returns Ok(E.start) if E.len >= count,
\* otherwise Err((E.start, E.len)).
C6_PicksFirstFit ==
    [][\A count \in 1 .. MaxCount :
         (Allocate(count) /\ TotalFree > 0)
         => LET E == Extents[FirstFitOrLargest(Extents, count)]
                n == IF count < E.len THEN count ELSE E.len
            IN  /\ last'.kind = IF E.len >= count THEN "Ok" ELSE "Err"
                /\ last'.start = E.start
                /\ last'.len = n
                /\ E.len > n =>
                     \E j \in 1 .. Len(Extents') :
                         Extents'[j] = Entry(E.start + n, E.len - n)]_vars

\* C7: allocate(count) with count >= 1 returns Err((0, 0)) if and only if
\* the sum of all extent lens was zero; whenever at least one cell is free it
\* returns a range of at least one cell.
C7_ExhaustedIffNoFreeCell ==
    last.op = "allocate" =>
        /\ (last.kind = "Err" /\ last.start = 0 /\ last.len = 0)
               <=> last.prefree = 0
        /\ last.prefree > 0 => (last.kind \in {"Ok", "Err"} /\ last.len >= 1)

\* C8: allocate(k) = Ok(start) followed by free(start, k) restores the sum of
\* all extent lens to its value before the allocation; and once every
\* outstanding allocation has been freed the sum is N - 1.
C8_FreeRestoresCount ==
    Returned =>
        /\ (last.op = "free" /\ last.undo.some)
               => TotalFree = last.undo.val
        /\ allocations = EmptyBag => TotalFree = Cardinality(Cells) - 1

\* C9: for a root r with 0 < r < N - 1, once every allocated range has been
\* freed the root chunk has no successor and holds exactly the two extents
\* {0, r} and {r + 1, N - r - 1}.
C9_BackToInitial ==
    (Returned /\ allocations = EmptyBag) =>
        /\ chunks[initial].kind = "chunk"
        /\ chunks[initial].next_hint = Empty
        /\ chunks[initial].ents
               = << Entry(0, root),
                    Entry(root + 1, Cardinality(Cells) - root - 1) >>

\* C10: free(pos, count) panics whenever some cell of the range is covered by
\* a free extent already, so that a free of free cells never leaves
\* overlapping extents in the list.
C10_FreeAgainPanics ==
    last.op = "free again" =>
        /\ last.kind = "panic"
        /\ \A i, j \in 1 .. Len(Extents) :
               i # j => Range(Extents[i].start, Extents[i].len)
                            \cap Range(Extents[j].start, Extents[j].len) = {}

\* the extents of es whose len is not zero, in order
NonZero(es) == SelectSeq(es, LAMBDA e : e.len # 0)

\* C11: FreeList::new over a slab of N cells with root r (0 <= r < N) leaves
\* the root chunk with no successor and holding exactly the extents {0, r}
\* and {r + 1, N - r - 1}, an extent being omitted when its len would be
\* zero; it writes no cell other than r.
C11_NewExtents ==
    last.op = "new" =>
        /\ chunks[root].kind = "chunk"
        /\ chunks[root].next_hint = Empty
        /\ chunks[root].ents
               = NonZero(<< Entry(0, root),
                            Entry(root + 1, Cardinality(Cells) - root - 1) >>)
        /\ \A i \in Cells \ {root} : chunks[i] = RawCell

\* C12: after new with any root 0 <= r < N, and after every allocate or free
\* of an allocated range, every stored extent has len >= 1.
C12_NoZeroLen ==
    Returned =>
        \A i \in 1 .. Len(ChunkIds) :
            \A j \in 1 .. len(chunks[ChunkIds[i]]) :
                chunks[ChunkIds[i]].ents[j].len >= 1

\* C13: after every allocate or free, every reachable extent-chunk holds at
\* least one extent, except that the root may be empty when it is the only
\* chunk and the slab has no free cell.
C13_NoEmptyChunk ==
    (Returned /\ last.op \in {"allocate", "free"}) =>
        \A i \in 1 .. Len(ChunkIds) :
            \/ len(chunks[ChunkIds[i]]) >= 1
            \/ /\ ChunkIds[i] = initial
               /\ chunks[initial].next_hint = Empty
               /\ TotalFree = 0

\* The reference bounded list of C14: a list of at most Capacity elements.
\* An operation whose condition does not hold leaves the list as it is and
\* returns the value it was given (push, insert) or none (pop, remove).
RefPush(l, v) ==
    IF Len(l) < Capacity
    THEN [list |-> [j \in 1 .. (Len(l) + 1) |->
                       IF j <= Len(l) THEN l[j] ELSE v],
          ret |-> NoneV]
    ELSE [list |-> l, ret |-> Some(v)]

RefPop(l) ==
    IF Len(l) > 0
    THEN [list |-> [j \in 1 .. (Len(l) - 1) |-> l[j]], ret |-> Some(l[Len(l)])]
    ELSE [list |-> l, ret |-> NoneV]

RefInsert(l, i, v) ==
    IF i <= Len(l) /\ Len(l) < Capacity
    THEN [list |-> [j \in 1 .. (Len(l) + 1) |->
                       IF j <= i THEN l[j]
                       ELSE IF j = i + 1 THEN v ELSE l[j - 1]],
          ret |-> NoneV]
    ELSE [list |-> l, ret |-> Some(v)]

RefRemove(l, i) ==
    IF i < Len(l)
    THEN [list |-> [j \in 1 .. (Len(l) - 1) |->
                       IF j <= i THEN l[j] ELSE l[j + 1]],
          ret |-> Some(l[i + 1])]
    ELSE [list |-> l, ret |-> NoneV]

\* what the reference list, holding the slots the chunk held before its
\* last call, makes of that call
RefLast ==
    CASE last.op = "push" -> RefPush(last.pre.ents, last.value)
      [] last.op = "pop" -> RefPop(last.pre.ents)
      [] last.op = "insert" -> RefInsert(last.pre.ents, last.index, last.value)
      [] last.op = "remove" -> RefRemove(last.pre.ents, last.index)
      [] OTHER -> [list |-> << >>, ret |-> NoneV]

\* C14: after any sequence of push, pop, insert and remove on a chunk,
\* 0 <= len <= capacity and the slots [0, len) equal a reference bounded
\* list driven by the same operations (push appends when len < capacity,
\* pop removes the last element, insert(i, v) inserts when i <= len and
\* len < capacity, remove(i) removes when i < len), and each operation
\* returns the same value as the reference.  The chunk and the list start
\* empty; every call takes the chunk from the slots it shares with the list
\* to the slots the list has after the same call.
C14_ChunkRefinesList ==
    /\ len(own) >= 0
    /\ len(own) <= Capacity
    /\ own.ents = RefLast.list
    /\ last.ret = RefLast.ret

C14_InsertShifts ==
    /\ last.op = "insert"
    /\ last.kind = "None"
    /\ last.index < len(last.pre)

\* C15: push on a full chunk and insert on a full chunk return the rejected
\* value; pop on an empty chunk and remove(i) with i >= len return none; in
\* all four cases len and the slots are unchanged.
C15_RejectedUnchanged ==
    /\ (last.op \in {"push", "insert"} /\ len(last.pre) = Capacity)
           => (last.ret = Some(last.value) /\ own.ents = last.pre.ents)
    /\ (last.op = "pop" /\ len(last.pre) = 0)
           => (last.ret = NoneV /\ own.ents = last.pre.ents)
    /\ (last.op = "remove" /\ last.index >= len(last.pre))
           => (last.ret = NoneV /\ own.ents = last.pre.ents)

C15_PushOnFull ==
    /\ last.op = "push"
    /\ len(last.pre) = Capacity

\* C16: for len < capacity and any i <= len, insert(i, v) succeeds, and a
\* remove(i) that follows it returns v and restores the exact sequence the
\* chunk held before the insert, i = len included.
C16_InsertThenRemove ==
    /\ (/\ last.op = "insert"
        /\ len(last.pre) < Capacity
        /\ last.index <= len(last.pre)) => last.kind = "None"
    /\ (last.op = "remove" /\ last.undo.some)
           => /\ last.ret = Some(last.undo.val.element)
              /\ own.ents = last.undo.val.ents

C16_RemovedAgain ==
    /\ last.op = "remove"
    /\ last.undo.some
    /\ last.index + 1 < len(last.pre)

\* C17: Chunk::insert(i, v) with i > len panics (it does not return a
\* value), while insert with i <= len on a full chunk returns v.
C17_InsertPastLenPanics ==
    last.op = "insert" =>
        /\ last.index > len(last.pre) => last.kind = "panic"
        /\ (last.index <= len(last.pre) /\ len(last.pre) = Capacity)
               => last.ret = Some(last.value)

\* C18: for every i <= len, split(i, other) leaves self.len = i and
\* other.len = the original len - i; the slots [0, i) of self are unchanged
\* and the slots of other are the original slots [i, len) in order; i = 0,
\* i = len and the empty chunk included.
C18_SplitMovesTail ==
    (last.op = "split" /\ last.index <= len(last.pre)) =>
        /\ last.kind = "unit"
        /\ len(own) = last.index
        /\ len(other) = len(last.pre) - last.index
        /\ \A j \in 1 .. last.index : own.ents[j] = last.pre.ents[j]
        /\ \A j \in 1 .. (len(last.pre) - last.index) :
               other.ents[j] = last.pre.ents[last.index + j]

C18_SplitInTheMiddle ==
    /\ last.op = "split"
    /\ 0 < last.index
    /\ last.index < len(last.pre)

\* C19: split does not relink: self.next_hint is unchanged and
\* other.next_hint is the empty link afterwards.
C19_SplitKeepsLinks ==
    (last.op = "split" /\ last.kind = "unit") =>
        /\ own.next_hint = last.pre.next_hint
        /\ other.next_hint = Empty

C19_SplitOfLinked ==
    /\ last.op = "split"
    /\ last.kind = "unit"
    /\ last.pre.next_hint # Empty
    /\ last.store.kind = "chunk"
    /\ last.store.next_hint # Empty

\* C20: split(i, other) with i > len panics, and the len and the elements
\* of self are the same as before the call.
C20_SplitPastLenPanics ==
    (last.op = "split" /\ last.index > len(last.pre)) =>
        /\ last.kind = "panic"
        /\ len(own) = len(last.pre)
        /\ own.ents = last.pre.ents

C20_SplitPastLen ==
    /\ last.op = "split"
    /\ last.index > len(last.pre)
    /\ len(last.pre) > 0

\* C25: advancing a slab cursor (Cursor, CursorMut, SliceIter,
\* SliceIterMut) started at index s over an acyclic sequence yields the
\* pairs (index, chunk) of exactly the chunks reachable from s by next_hint,
\* in link order and each index once, and yields none from the moment the
\* current link is the empty sentinel.
C25_CursorYieldsChain ==
    LET chain == Walk(chunks, initial, {})
        n == Len(last.yielded)
    IN  /\ n <= Len(chain)
        /\ \A i \in 1 .. n : last.yielded[i] = chain[i]
        /\ \A i, j \in 1 .. n : i # j => last.yielded[i] # last.yielded[j]
        /\ last.op = "next" =>
               /\ last.ret.some <=> last.before # Empty
               /\ last.ret.some => last.ret.val = last.yielded[n]
               /\ ~last.ret.some => (n = Len(chain) /\ last.current = Empty)

C25_WalkedToTheEnd ==
    /\ last.op = "next"
    /\ ~last.ret.some
    /\ Len(last.yielded) >= 3
    /\ last.yielded[1] > last.yielded[2]

\* C26: max_by_key_with_cutoff(f, cutoff) returns none on an empty
\* sequence; otherwise, if some item has key >= cutoff it returns the first
\* such item in iteration order, and if no item has key >= cutoff it returns
\* an item whose key is the maximum of all keys.
C26_FirstFitOrMax ==
    last.op = "max_by_key_with_cutoff" =>
        LET keys == last.keys
            m == last.ret
        IN  IF Len(keys) = 0 THEN m = 0
            ELSE /\ m \in 1 .. Len(keys)
                 /\ IF \E i \in 1 .. Len(keys) : keys[i] >= last.cutoff
                    THEN /\ keys[m] >= last.cutoff
                         /\ \A j \in 1 .. (m - 1) : keys[j] < last.cutoff
                    ELSE \A j \in 1 .. Len(keys) : keys[j] <= keys[m]

C26_FitBehindLarger ==
    /\ last.op = "max_by_key_with_cutoff"
    /\ last.ret = 3
    /\ last.keys[3] >= last.cutoff
    /\ last.keys[1] < last.keys[2]

\* Iterator::max_by_key of the standard library: the last of the items with
\* the maximum key (1-based position, 0 for None)
StdMaxByKey(keys) ==
    IF Len(keys) = 0 THEN 0
    ELSE CHOOSE i \in 1 .. Len(keys) :
            /\ \A j \in 1 .. Len(keys) : keys[j] <= keys[i]
            /\ \A j \in (i + 1) .. Len(keys) : keys[j] < keys[i]

\* C27: when every item of the sequence has key < cutoff,
\* max_by_key_with_cutoff returns the same item as the standard max_by_key
\* over the same sequence, including which item is returned when several
\* items share the maximum key.
C27_SameAsMaxByKey ==
    (/\ last.op = "max_by_key_with_cutoff"
     /\ \A i \in 1 .. Len(last.keys) : last.keys[i] < last.cutoff)
        => last.ret = StdMaxByKey(last.keys)

\* C28: for any interleaving of concurrent Superblock::lock(pos) calls on
\* the same in-bounds pos, at most one caller obtains Some(entry) between
\* two releases: while one caller holds the entry and has not called
\* unlock(pos), every other lock(pos) returns None.
C28_OneHolder ==
    /\ \A t, u \in Callers :
           (Holds(t, last[t].pos) /\ Holds(u, last[t].pos)) => t = u
    /\ \A t \in Callers : last[t].contended => last[t].ret = "None"

C28_RefusedWhileHeld ==
    \E t, u \in Callers :
        /\ t # u
        /\ Holds(t, last[t].pos)
        /\ last[u].pos = last[t].pos
        /\ last[u].pc = "idle"
        /\ last[u].contended
        /\ last[u].ret = "None"

\* The case of free that C29 and C30 are about, read off the state before
\* the call: free(pos, count) finds its chunk C (id), the insertion position
\* p by binary search, no neighbour adjacent, and C full.  k is the last
\* cell of C's last extent, stolen is C's entries after the steal.
OverflowCase(pos, count) ==
    LET w == FreeWalk(chunks, initial, {}, Empty, pos)
    IN  IF w.status # "ok" \/ w.id = Empty
           \/ (w.cur # Empty /\ chunks[w.cur].kind = "raw")
        THEN [hit |-> FALSE]
        ELSE
        LET C == chunks[w.id]
            bs == binary_search_by_key(C.ents, pos)
            pre_adj == bs.idx # 0
                       /\ C.ents[bs.idx].start + C.ents[bs.idx].len = pos
            post_adj == PostAdj(chunks, w.id, w.cur, bs.idx, pos + count)
            e == C.ents[len(C)]
        IN  IF bs.ok \/ pre_adj \/ post_adj # "No" \/ len(C) < Capacity
            THEN [hit |-> FALSE]
            ELSE [hit |-> TRUE, id |-> w.id, p |-> bs.idx,
                  k |-> e.start + e.len - 1,
                  stolen |-> IF e.len = 1
                             THEN SubSeq(C.ents, 1, len(C) - 1)
                             ELSE [C.ents EXCEPT ![len(C)].len = e.len - 1]]

\* C29: when free must insert a new extent at in-chunk position p into a
\* full extent-chunk C, the new extent-chunk is hosted in cell k = the last
\* cell of C's last extent (that extent's len is decremented, and it is
\* discarded if it becomes zero); afterwards C.next_hint = k, chunk k's
\* next_hint equals C's former successor, C holds the former entries [0, p)
\* followed by the new extent, chunk k holds the former entries from p on,
\* and the global sorted and no-touch invariants hold.
C29_OverflowSplit ==
    [][\A a \in Recorded :
         LET o == OverflowCase(a.start, a.len)
         IN  (Free(a) /\ o.hit) =>
                 /\ last'.kind = "unit"
                 /\ chunks'[o.id].next_hint = o.k
                 /\ chunks'[o.k].kind = "chunk"
                 /\ chunks'[o.k].next_hint = chunks[o.id].next_hint
                 /\ chunks'[o.id].ents
                        = SubSeq(chunks[o.id].ents, 1, o.p) \o << a >>
                 /\ chunks'[o.k].ents
                        = SubSeq(o.stolen, o.p + 1, Len(o.stolen))
                 /\ \A i \in 1 .. (Len(Extents') - 1) :
                        Extents'[i].start + Extents'[i].len
                            < Extents'[i + 1].start]_vars

\* C30: free(pos, count) of a currently allocated, non-adjacent range whose
\* target extent-chunk is full never panics: after the overflow split the
\* original insertion succeeds for every insertion position p with
\* 0 <= p <= len of the full chunk, including p = len (range beyond the
\* chunk's last extent) and the case where the last extent had len 1 and
\* was discarded by the steal.
C30_OverflowNeverPanics ==
    [][\A a \in Recorded :
         (Free(a) /\ OverflowCase(a.start, a.len).hit)
             => last'.kind = "unit"]_vars

\* C21: while an owning sequence is traversed with AnchorIteratorMut and the
\* consumer may call split(pos) on the chunk just yielded between two
\* advances, the chunk created by a split of the current chunk is the one
\* yielded by the very next advance, the chunks yielded are the chunks of
\* the sequence in link order, each once, all of them once an advance has
\* yielded none, and every advance after that one yields none.
C21_SplitsAreVisited ==
    /\ [][(AnchorNext /\ last.op = "split" /\ last.kind = "unit"
                       /\ ~root.first)
             => last'.ret = Some(last.created)]_vars
    /\ [][(AnchorNext /\ last.done) => last'.ret = NoneV]_vars
    /\ [](/\ Len(allocations) <= Len(ChunkIds)
          /\ \A i \in 1 .. Len(allocations) : allocations[i] = ChunkIds[i]
          /\ last.done => allocations = ChunkIds)

\* an advance right after a split of the chunk yielded before has yielded
\* the chunk that split created, as the last of NBoxes chunks
C21_CreatedChunkYielded ==
    /\ last.op = "next"
    /\ last.created # Empty
    /\ last.ret = Some(last.created)
    /\ Len(allocations) = NBoxes

\* C22: ChunkMut::push(element) returns normally with the element stored
\* for every chunk state: a chunk with room has the element appended; for a
\* full chunk a new chunk is created as its direct successor and the
\* element is inserted into it, so that in the concatenated sequence the
\* element directly follows all elements the chunk held before the call.
C22_PushAlwaysStores ==
    [][\A element \in Values :
         AnchorPush(element) =>
             LET ids == ChunkIds
                 i == CHOOSE j \in 1 .. Len(ids) : ids[j] = Handle
                 upto == Flatten(chunks, SubSeq(ids, 1, i))
                 behind == Flatten(chunks, SubSeq(ids, i + 1, Len(ids)))
             IN  /\ last'.kind = "unit"
                 /\ Flatten(chunks', Walk(chunks', initial, {}))
                        = upto \o << element >> \o behind
                 /\ IF len(chunks[Handle]) < Capacity
                    THEN chunks'[Handle].ents
                            = Append(chunks[Handle].ents, element)
                    ELSE /\ chunks[NewBox].kind = "raw"
                         /\ chunks'[Handle].next_hint = NewBox
                         /\ chunks'[NewBox].kind = "chunk"
                         /\ chunks'[NewBox].ents[len(chunks'[NewBox])]
                                = element]_vars

\* nondecreasing
Sorted(s) == \A i \in 1 .. (Len(s) - 1) : s[i] <= s[i + 1]

\* s with x put in at position p, counted from 0
WithInserted(s, p, x) == SubSeq(s, 1, p) \o << x >> \o SubSeq(s, p + 1, Len(s))

\* C23: over a sequence whose elements are sorted ascending across chunks,
\* search(needle) from a fresh cursor returns Ok((c, p)) only when the
\* element at position p of the c-th yielded chunk equals needle, and
\* Err((c, p)) only when needle is absent and inserting needle at position
\* p of the c-th chunk keeps the whole sequence sorted, also when needle is
\* smaller than every element.
C23_SearchFindsInsertionPoint ==
    [][\A needle \in Needles :
         (AnchorSearch(needle) /\ Sorted(Elements)
              /\ last'.kind \in {"Ok", "Err"}) =>
             LET c == last'.count
                 p == last'.pos
                 ids == allocations'
             IN  /\ c \in 1 .. Len(ids)
                 /\ p <= len(chunks[ids[c]])
                 /\ last'.kind = "Ok" =>
                        /\ p < len(chunks[ids[c]])
                        /\ chunks[ids[c]].ents[p + 1] = needle
                 /\ last'.kind = "Err" =>
                        /\ \A j \in 1 .. Len(Elements) :
                               Elements[j] # needle
                        /\ Sorted(Flatten(
                               [chunks EXCEPT ![ids[c]].ents
                                    = WithInserted(@, p, needle)],
                               ChunkIds))]_vars

\* C24: when needle is greater than every element of a sorted owning
\* sequence, search returns Err((c, p)) where c is the number of chunks of
\* the sequence, so the last chunk, and p is the len of the last chunk.
C24_PastTheEnd ==
    [][\A needle \in Needles :
         (AnchorSearch(needle) /\ Sorted(Elements)
              /\ \A j \in 1 .. Len(Elements) : Elements[j] < needle) =>
             /\ last'.kind = "Err"
             /\ last'.count = Len(ChunkIds)
             /\ last'.count > 0
             /\ last'.pos = len(chunks[ChunkIds[Len(ChunkIds)]])]_vars

\* C38: after ChunkMut::split(pos) on a chunk c whose successor was s
\* (possibly none), the successor of c is the newly allocated chunk, the
\* successor of the new chunk is s, and the concatenation of the elements
\* of all chunks of the sequence in link order is the same as before.
C38_SplitLinksNewChunk ==
    [][\A pos \in Indices :
         (AnchorSplit(pos) /\ last'.kind = "unit") =>
             /\ chunks[NewBox].kind = "raw"
             /\ chunks'[NewBox].kind = "chunk"
             /\ chunks'[Handle].next_hint = NewBox
             /\ chunks'[NewBox].next_hint = chunks[Handle].next_hint
             /\ Flatten(chunks', Walk(chunks', initial, {})) = Elements
             /\ chunks'[Handle].ents \o chunks'[NewBox].ents
                    = chunks[Handle].ents]_vars

\* a split in the middle of a chunk that had a successor
C38_SplitBeforeSuccessor ==
    /\ last.op = "split"
    /\ last.kind = "unit"
    /\ len(chunks[Handle]) > 0
    /\ chunks[Handle].next_hint = last.created
    /\ len(chunks[last.created]) > 0
    /\ chunks[last.created].next_hint # Empty

\* C39: AnchorIteratorMut::search returns an Ok or an Err and never
\* reaches the unreachable! behind its loop, for every owning sequence: an
\* anchor with no chunk, an anchor whose only chunk is empty, and
\* sequences with empty chunks anywhere, also at the end.
C39_SearchReturns ==
    [][\A needle \in Needles :
         AnchorSearch(needle) => last'.kind \in {"Ok", "Err"}]_vars

\* C40: after the holder of a lock obtained with lock(pos) calls
\* unlock(pos) the flag of the entry is unlocked, and a later lock(pos) by
\* any caller returns Some; unlock(pos) on an entry that is not locked
\* panics and leaves the entry unlocked.
C40_UnlockReleases ==
    /\ [][\A t \in Callers :
             (Unlock(t) /\ last[t].pos < NEntries) =>
                 /\ last'[t].pc = "idle"
                 /\ chunks'[0].ents[last[t].pos + 1] = FALSE]_vars
    /\ [][\A t \in Callers :
             (LockSwap(t)
                  /\ last[t].pos < NEntries
                  /\ \A u \in Callers :
                         ~Holds(u, last[t].pos)
                         /\ ~(last[u].pc = "lock" /\ last[u].pos = last[t].pos
                              /\ u # t))
                 => last'[t].ret = "Some"]_vars
    /\ [][\A t \in Callers, pos \in 0 .. (NEntries - 1) :
             UnlockUnlocked(t, pos) =>
                 /\ last'[t].pc = "panic"
                 /\ chunks'[0].ents[pos + 1] = FALSE]_vars

\* C31: after every allocate or free, following next_hint from the root
\* index reaches the empty sentinel without visiting any index twice, the
\* root index refers to a live extent-chunk, and every visited index is
\* below N and is neither covered by an extent nor inside a client-held
\* range.
C31_ListEndsAtEmpty ==
    (Returned /\ last.op \in {"allocate", "free"}) =>
        /\ initial \in Cells
        /\ chunks[initial].kind = "chunk"
        /\ chunks[ChunkIds[Len(ChunkIds)]].next_hint = Empty
        /\ \A i \in 1 .. Len(ChunkIds) :
               /\ chunks[ChunkIds[i]].kind = "chunk"
               /\ ChunkIds[i] \notin Covered \cup Lent

\* The case of allocate that C32 is about, read off the state before the
\* call: allocate(count) picks an extent that is the only one of its chunk
\* C and takes all of it, and C is not the only chunk of the list.
EmptiesChunk(count) ==
    LET s == AllocSearch(Self, count)
    IN  IF s.status # "ok" THEN [hit |-> FALSE]
        ELSE LET C == s.max.c_id
             IN  [hit |-> /\ len(chunks[C]) = 1
                          /\ chunks[C].ents[1].len <= count
                          /\ Len(ChunkIds) > 1,
                  C |-> C,
                  taken |-> Range(chunks[C].ents[1].start,
                                  chunks[C].ents[1].len)]

\* C32: when allocate removes the last extent of an extent-chunk C that is
\* not the only chunk, C is unlinked by rewriting the link of its actual
\* predecessor, or by promoting its successor to root when C is the root:
\* afterwards C is unreachable from the root, every other chunk is still
\* reachable in its former relative order with its extents intact, and the
\* cell index of C is covered by a free extent.
C32_UnlinkedByPredecessor ==
    [][\A count \in 1 .. MaxCount :
         LET e == EmptiesChunk(count)
             others == SelectSeq(ChunkIds, LAMBDA c : c # e.C)
         IN  (Allocate(count) /\ e.hit) =>
                 /\ last'.kind \in {"Ok", "Err"}
                 /\ e.C \notin Meta'
                 /\ SelectSeq(ChunkIds', LAMBDA c : c \in Meta) = others
                 /\ e.C \in Covered'
                 /\ (Covered \ e.taken) \ Meta' \subseteq Covered'
                 /\ Covered' \subseteq (Covered \ e.taken) \cup {e.C}]_vars

\* what free(a.start, a.len) leaves of the extents: the extents that ended
\* at a.start (P) or started at its end (Q) before the call, the union of the
\* freed range with them, the positions of the extents that cover a freed
\* cell afterwards (hits), and the other extents before (kept) and after
\* (rest) the call
Coalesced(a) ==
    LET end == a.start + a.len
        before == {Extents[i] : i \in 1 .. Len(Extents)}
        P == {e \in before : e.start + e.len = a.start}
        Q == {e \in before : e.start = end}
        lo == IF P = {} THEN a.start ELSE (CHOOSE e \in P : TRUE).start
        hi == IF Q = {} THEN end
              ELSE (CHOOSE e \in Q : TRUE).start + (CHOOSE e \in Q : TRUE).len
        after == Extents'
        hits == {i \in 1 .. Len(after) :
                    Range(after[i].start, after[i].len) \cap Range(a.start, a.len) # {}}
    IN  [union |-> Entry(lo, hi - lo),
         hits |-> hits,
         kept |-> before \ (P \cup Q),
         rest |-> {after[i] : i \in (1 .. Len(after)) \ hits}]

\* C33: a free of a recorded range that returns leaves the freed cells
\* covered by exactly one extent, and that extent is the union of the freed
\* range with the extent that ended at pos and the extent that started at
\* pos + count; any other extent that shares a cell with an extent of before
\* the call is that extent, or that extent less its last cell
C33_FreeCoalesces ==
    [][\A a \in Recorded :
         LET c == Coalesced(a)
         IN  (Free(a) /\ last'.kind = "unit") =>
                 /\ Cardinality(c.hits) = 1
                 /\ \A i \in c.hits : Extents'[i] = c.union
                 /\ \A e \in c.rest, k \in c.kept :
                        Range(e.start, e.len) \cap Range(k.start, k.len) # {} =>
                            e = k \/ e = Entry(k.start, k.len - 1)]_vars

\* C34: every allocate, and every free of a recorded range, comes to an end:
\* no walk over the chunk list, in the call or in a nested free of a chunk's
\* cell, meets a link a second time
C34_CallsTerminate ==
    last.op \in {"allocate", "free"} => last.kind # "hang"

\* C36: every free of a recorded range returns, and leaves the sum of the
\* lens of all extents at least count - 1 above what it was before the call
C36_FreeRaisesCount ==
    [][\A a \in Recorded :
         Free(a) => /\ last'.kind = "unit"
                    /\ TotalFree' >= TotalFree + a.len - 1]_vars

\* C37: a run of allocate calls with no free in between ends in Err((0, 0))
\* after finitely many calls: every allocate returns; a call that returns
\* a range returns at least one cell and adds cells to the ranges lent, of
\* which there are at most N, so only finitely many calls can return one;
\* and a call that returns no range returns Err((0, 0)) and leaves no extent
\* with a free cell
C37_DrainsToExhausted ==
    [][\A count \in 1 .. MaxCount :
         Allocate(count) =>
             /\ last'.kind \in {"Ok", "Err"}
             /\ last'.kind = "Ok" => last'.len = count
             /\ last'.len >= 1 => Cardinality(Lent') > Cardinality(Lent)
             /\ last'.len = 0 =>
                    /\ last'.kind = "Err"
                    /\ last'.start = 0
                    /\ \A i \in 1 .. Len(Extents') : Extents'[i].len = 0]_vars

\* C35: a request for tgt cells that is satisfied, by one allocate that
\* returns Ok or by further calls for what partial results left missing,
\* (last.len > 0: the loop was left by Ok) leaves the sum of the lens of all
\* extents exactly tgt below what it was before the request, and the
\* comparison of the counts the test makes passes
C35_RequestLowersCount ==
    [][\A tgt \in 1 .. MaxCount :
         (AllocRequest(tgt) /\ last'.len > 0) =>
             /\ last'.kind = "Ok"
             /\ TotalFree' = TotalFree - tgt]_vars
====
